---- MODULE Spec2Model ----
(***************************************************************************)
(* A model of flathunter's processor chain (flathunter/processor.py), its  *)
(* configuration object (flathunter/config.py) and the collaborators the   *)
(* chain drives.                                                           *)
(*                                                                         *)
(* Python values are tagged records, so that values of different Python    *)
(* types can be compared: None, bool, int, str, list, dict, and a raised   *)
(* exception as the outcome of a call.  A Python str is a sequence of      *)
(* atoms; an atom is one character, or one word that no operation of the   *)
(* program looks inside ("telegram", "#CR#").                              *)
(***************************************************************************)
EXTENDS Integers, Sequences, FiniteSets, TLC

VARIABLES
    osEnv,       \* os.environ of the process: variable name -> None or str
    Env,         \* class Env: the environment as frozen at import
    file,        \* what is at the configuration path on disk
    filename,    \* the argument of the last Config(filename) call
    cfg,         \* the Config object: [status, config], config is self.config
    cycle,       \* number of polling cycles started
    observed,    \* the getter values read at the start of the current cycle
    processors,  \* ProcessorChainBuilder.processors, shared with the built chain
    built,       \* build() was called: a ProcessorChain holds the list
    addLog,      \* history: the stages in the order the builder calls added them
    pc,          \* position of ProcessorChain.process: "idle", "running", "done"
    exposes,     \* the argument process was called with
    acc,         \* the accumulator of reduce
    idx,         \* number of processors reduce has applied
    trace,       \* history: per applied processor its input and output
    result,      \* what process returned
    seen,        \* the id store: ids committed by the persist stage
    events,      \* history: notifier dispatches and commits, in order
    inputs,      \* history: the argument of every process call
    rejected,    \* listings the filter rule set rejects
    raises,      \* listings on which an enrichment stage raises
    failing,     \* notifiers whose send fails
    driver,      \* Immobilienscout.driver: None or the Chrome driver
    created,     \* history: number of Chrome drivers get_chrome_driver has created
    cpc,         \* position of the crawler: "idle", "loop", "returned", "raised"
    max_pages,   \* the max_pages argument of get_results
    page_no,     \* get_results: page_no
    no_of_results, \* get_results: no_of_results
    entries,     \* get_results: entries
    fetched,     \* history: the pages get_page has fetched in this call, in order
    crawled,     \* the last crawler call: [op, out, script], out what it returned or
                 \* raised, script what execute_script gave it
    call         \* the last call of a function of config.py: [fn, arg, res]

cfgVars == <<osEnv, Env, file, filename, cfg, cycle, observed>>
chainVars == <<processors, built, addLog>>
runVars == <<pc, exposes, acc, idx, trace, result, seen, events, inputs>>
stageVars == <<rejected, raises, failing>>
crawlVars == <<driver, created, cpc, max_pages, page_no, no_of_results, entries, fetched,
               crawled>>
\* what no operation of the builder, the chain or the Config constructor touches
worldVars == <<stageVars, crawlVars, call>>
vars == <<cfgVars, chainVars, runVars, worldVars>>

(***************************************************************************)
(* Bounds of the model.                                                    *)
(***************************************************************************)
MaxStrLen == 2     \* atoms in an environment value
MaxStages == 2     \* builder calls are made while the chain is shorter than this
MaxLen == 2        \* listings in one input sequence
MaxRuns == 2       \* process calls / polling cycles

(***************************************************************************)
(* Python values.                                                          *)
(***************************************************************************)
PyNone == [t |-> "none"]
PyBool(b) == [t |-> "bool", b |-> b]
PyInt(i) == [t |-> "int", i |-> i]
PyFloat(i) == [t |-> "float", f |-> i]
PyStr(s) == [t |-> "str", s |-> s]
PyList(l) == [t |-> "list", l |-> l]
PyDict(d) == [t |-> "dict", d |-> d]
Raise(e) == [t |-> "raise", e |-> e]
EmptyDict == PyDict(<< >>)
Word(w) == PyStr(<<w>>)
IsRaise(v) == v.t = "raise"

\* bool(v): Python truthiness
Truthy(v) ==
    CASE v.t = "none" -> FALSE
      [] v.t = "bool" -> v.b
      [] v.t = "int" -> v.i # 0
      [] v.t = "float" -> v.f # 0
      [] v.t = "str" -> v.s # << >>
      [] v.t = "list" -> v.l # << >>
      [] v.t = "dict" -> DOMAIN v.d # {}
      [] OTHER -> TRUE

(***************************************************************************)
(* str operations.                                                         *)
(***************************************************************************)
\* str.split(sep) for a one-atom separator: the pieces between separators;
\* the empty string splits into one empty piece.
RECURSIVE SplitAcc(_, _, _, _)
SplitAcc(s, sep, piece, out) ==
    IF s = << >> THEN Append(out, PyStr(piece))
    ELSE IF Head(s) = sep THEN SplitAcc(Tail(s), sep, << >>, Append(out, PyStr(piece)))
    ELSE SplitAcc(Tail(s), sep, Append(piece, Head(s)), out)

split(s, sep) == SplitAcc(s, sep, << >>, << >>)

\* sep.join(pieces)
RECURSIVE join(_, _)
join(pieces, sep) ==
    IF pieces = << >> THEN << >>
    ELSE IF Len(pieces) = 1 THEN pieces[1].s
    ELSE pieces[1].s \o <<sep>> \o join(Tail(pieces), sep)

Digits == {"0", "1", "2", "3", "4", "5", "6", "7", "8", "9"}
DigitVal(c) ==
    CASE c = "0" -> 0 [] c = "1" -> 1 [] c = "2" -> 2 [] c = "3" -> 3 [] c = "4" -> 4
      [] c = "5" -> 5 [] c = "6" -> 6 [] c = "7" -> 7 [] c = "8" -> 8 [] c = "9" -> 9

RECURSIVE Decimal(_, _)
Decimal(s, n) == IF s = << >> THEN n ELSE Decimal(Tail(s), 10 * n + DigitVal(Head(s)))

\* int(s) and float(s) on a str of the model's alphabet: a non-empty run of
\* digits converts, anything else raises ValueError.
IsNumeral(s) == s # << >> /\ \A i \in 1..Len(s) : s[i] \in Digits
int(s) == IF IsNumeral(s) THEN PyInt(Decimal(s, 0)) ELSE Raise("ValueError")
float(s) == IF IsNumeral(s) THEN PyFloat(Decimal(s, 0)) ELSE Raise("ValueError")

\* x in container: list membership by equality, substring for a str, key for a dict
IsSubstring(x, s) ==
    \E i \in 0..(Len(s) - Len(x)) : \A j \in 1..Len(x) : s[i + j] = x[j]
In(x, container) ==
    CASE container.t = "list" -> \E i \in 1..Len(container.l) : container.l[i] = x
      [] container.t = "str" -> x.t = "str" /\ IsSubstring(x.s, container.s)
      [] container.t = "dict" -> x.t = "str" /\ Len(x.s) = 1 /\ x.s[1] \in DOMAIN container.d
      [] OTHER -> FALSE
(***************************************************************************)
(* dict operations and YamlConfig._read_yaml_path.                         *)
(***************************************************************************)
\* d.get(key, default); calling .get on a value that is no dict raises
get(d, key, default) ==
    IF d.t # "dict" THEN Raise("AttributeError")
    ELSE IF key \in DOMAIN d.d THEN d.d[key] ELSE default

\* d[key]
getitem(d, key) ==
    IF d.t # "dict" THEN Raise("TypeError")
    ELSE IF key \in DOMAIN d.d THEN d.d[key] ELSE Raise("KeyError")

\* faulty variant: a falsy value is taken for a missing one
RECURSIVE read_yaml_path_or_default(_, _, _)
read_yaml_path_or_default(config, parts, default_value) ==
    IF Len(parts) > 1 /\ config # PyNone
    THEN LET c == get(config, parts[1], EmptyDict)
         IN IF IsRaise(c) THEN c ELSE read_yaml_path_or_default(c, Tail(parts), default_value)
    ELSE IF config = PyNone THEN default_value
    ELSE LET res == get(config, parts[1], default_value)
         IN IF IsRaise(res) THEN res ELSE IF ~Truthy(res) THEN default_value ELSE res

\* config.py 155-167; parts is path.split('.')
RECURSIVE read_yaml_path(_, _, _)
read_yaml_path(config, parts, default_value) ==
    IF Len(parts) > 1 /\ config # PyNone
    THEN LET c == get(config, parts[1], EmptyDict)
         IN IF IsRaise(c) THEN c ELSE read_yaml_path(c, Tail(parts), default_value)
    ELSE IF config = PyNone THEN default_value
    ELSE LET res == get(config, parts[1], default_value)
         IN IF res = PyNone THEN default_value ELSE res

(***************************************************************************)
(* YamlConfig: the getters on the nested dictionaries (config.py 95-400).  *)
(***************************************************************************)
\* str(v) and str.lower()
str(v) ==
    CASE v.t = "str" -> v.s
      [] v.t = "bool" -> IF v.b THEN <<"True">> ELSE <<"False">>
      [] v.t = "none" -> <<"None">>
      [] OTHER -> <<"?">>
LowerAtom(c) == IF c \in {"True", "TRUE", "true"} THEN "true" ELSE c
lower(s) == [i \in 1..Len(s) |-> LowerAtom(s[i])]

DEFAULT_MESSAGE_FORMAT == Word("DEFAULT_MESSAGE_FORMAT")
PackageDir == Word("flathunter/..")

Yaml_captcha_driver_arguments(config) ==
    read_yaml_path(config, <<"captcha", "driver_arguments">>, PyList(<< >>))
Yaml_get_imagetyperz_token(config) ==
    read_yaml_path(config, <<"captcha", "imagetyperz", "token">>, PyStr(<< >>))
Yaml_get_twocaptcha_key(config) ==
    read_yaml_path(config, <<"captcha", "2captcha", "api_key">>, PyStr(<< >>))
Yaml_database_location(config) ==
    LET v == read_yaml_path(config, <<"database_location">>, PyNone)
    IN IF v # PyNone THEN v ELSE PackageDir
Yaml_target_urls(config) == read_yaml_path(config, <<"urls">>, PyList(<< >>))
Yaml_verbose_logging(config) ==
    LET v == read_yaml_path(config, <<"verbose">>, PyNone)
    IN IF IsRaise(v) THEN v ELSE PyBool(v # PyNone)
Yaml_loop_is_active(config) == read_yaml_path(config, <<"loop", "active">>, PyBool(FALSE))
Yaml_loop_period_seconds(config) ==
    read_yaml_path(config, <<"loop", "sleeping_time">>, PyInt(60 * 10))
Yaml_loop_pause_from(config) ==
    read_yaml_path(config, <<"loop", "pause", "from">>, Word("00:00"))
Yaml_loop_pause_till(config) ==
    read_yaml_path(config, <<"loop", "pause", "till">>, Word("00:00"))
Yaml_has_website_config(config) == PyBool(In(Word("website"), config))
Yaml_website_session_key(config) ==
    read_yaml_path(config, <<"website", "session_key">>, PyNone)
Yaml_website_domain(config) == read_yaml_path(config, <<"website", "domain">>, PyNone)
Yaml_website_bot_name(config) == read_yaml_path(config, <<"website", "bot_name">>, PyNone)
Yaml_google_cloud_project_id(config) ==
    read_yaml_path(config, <<"google_cloud_project_id">>, PyNone)
Yaml_message_format(config) ==
    LET config_format == read_yaml_path(config, <<"message">>, PyNone)
    IN IF config_format # PyNone THEN config_format ELSE DEFAULT_MESSAGE_FORMAT
Yaml_notifiers(config) == read_yaml_path(config, <<"notifiers">>, PyList(<< >>))
Yaml_telegram_bot_token(config) ==
    read_yaml_path(config, <<"telegram", "bot_token">>, PyNone)
Yaml_telegram_notify_with_images(config) ==
    LET flag == read_yaml_path(config, <<"telegram", "notify_with_images">>, Word("false"))
    IN IF IsRaise(flag) THEN flag ELSE PyBool(lower(str(flag)) = <<"true">>)
Yaml_telegram_receiver_ids(config) ==
    read_yaml_path(config, <<"telegram", "receiver_ids">>, PyList(<< >>))
Yaml_mattermost_webhook_url(config) ==
    read_yaml_path(config, <<"mattermost", "webhook_url">>, PyNone)
Yaml_slack_webhook_url(config) ==
    read_yaml_path(config, <<"slack", "webhook_url">>, PyStr(<< >>))
Yaml_apprise_notify_with_images(config) ==
    LET flag == read_yaml_path(config, <<"apprise_notify_with_images">>, Word("false"))
    IN IF IsRaise(flag) THEN flag ELSE PyBool(lower(str(flag)) = <<"true">>)

\* (self.config.get("filters", {}) or {}).get(key, None)
get_filter_config(config, key) ==
    LET filters == get(config, "filters", EmptyDict)
    IN IF IsRaise(filters) THEN filters
       ELSE get(IF Truthy(filters) THEN filters ELSE EmptyDict, key, PyNone)

Yaml_excluded_titles(config) ==
    IF In(Word("excluded_titles"), config) THEN getitem(config, "excluded_titles")
    ELSE LET titles == get_filter_config(config, "excluded_titles")
         IN IF Truthy(titles) THEN titles ELSE PyList(<< >>)
Yaml_min_price(config) == get_filter_config(config, "min_price")
Yaml_max_price(config) == get_filter_config(config, "max_price")
Yaml_min_size(config) == get_filter_config(config, "min_size")
Yaml_max_size(config) == get_filter_config(config, "max_size")
Yaml_min_rooms(config) == get_filter_config(config, "min_rooms")
Yaml_max_rooms(config) == get_filter_config(config, "max_rooms")
Yaml_max_price_per_square(config) == get_filter_config(config, "max_price_per_square")

(***************************************************************************)
(* CaptchaEnvironmentConfig and Config: the getters with an environment    *)
(* override (config.py 403-589).  frozen is class Env, live is os.environ. *)
(***************************************************************************)
\* faulty variant: the environment read when the getter is called
EnvAttrLive(frozen, live, name) == live[name]

\* Env.<NAME>: the value frozen when the module was imported
EnvAttr(frozen, live, name) == frozen[name]

\* [int(x) for x in pieces]
RECURSIVE IntEach(_)
IntEach(pieces) ==
    IF pieces = << >> THEN PyList(<< >>)
    ELSE LET h == int(Head(pieces).s)
             rest == IntEach(Tail(pieces))
         IN IF IsRaise(h) THEN h
            ELSE IF IsRaise(rest) THEN rest
            ELSE PyList(<<h>> \o rest.l)

HeadlessArguments ==
    PyList(<<Word("--no-sandbox"), Word("--headless"), Word("--disable-gpu"),
             Word("--remote-debugging-port=9222"), Word("--disable-dev-shm-usage"),
             Word("--window-size=1024,768")>>)

get_imagetyperz_token(frozen, live, config) ==
    IF EnvAttr(frozen, live, "FLATHUNTER_IMAGETYPERZ_TOKEN") # PyNone
    THEN EnvAttr(frozen, live, "FLATHUNTER_IMAGETYPERZ_TOKEN")
    ELSE Yaml_get_imagetyperz_token(config)
get_twocaptcha_key(frozen, live, config) ==
    IF EnvAttr(frozen, live, "FLATHUNTER_2CAPTCHA_KEY") # PyNone
    THEN EnvAttr(frozen, live, "FLATHUNTER_2CAPTCHA_KEY")
    ELSE Yaml_get_twocaptcha_key(config)
captcha_driver_arguments(frozen, live, config) ==
    IF EnvAttr(frozen, live, "FLATHUNTER_HEADLESS_BROWSER") # PyNone
    THEN HeadlessArguments
    ELSE Yaml_captcha_driver_arguments(config)
database_location(frozen, live, config) ==
    IF EnvAttr(frozen, live, "FLATHUNTER_DATABASE_LOCATION") # PyNone
    THEN EnvAttr(frozen, live, "FLATHUNTER_DATABASE_LOCATION")
    ELSE Yaml_database_location(config)
target_urls(frozen, live, config) ==
    IF EnvAttr(frozen, live, "FLATHUNTER_TARGET_URLS") # PyNone
    THEN PyList(split(EnvAttr(frozen, live, "FLATHUNTER_TARGET_URLS").s, ";"))
    ELSE Yaml_target_urls(config)
verbose_logging(frozen, live, config) ==
    IF EnvAttr(frozen, live, "FLATHUNTER_VERBOSE_LOG") # PyNone
    THEN PyBool(TRUE)
    ELSE Yaml_verbose_logging(config)
loop_is_active(frozen, live, config) ==
    IF EnvAttr(frozen, live, "FLATHUNTER_LOOP_PERIOD_SECONDS") # PyNone
    THEN PyBool(TRUE)
    ELSE Yaml_loop_is_active(config)
loop_period_seconds(frozen, live, config) ==
    IF EnvAttr(frozen, live, "FLATHUNTER_LOOP_PERIOD_SECONDS") # PyNone
    THEN int(EnvAttr(frozen, live, "FLATHUNTER_LOOP_PERIOD_SECONDS").s)
    ELSE Yaml_loop_period_seconds(config)
loop_pause_from(frozen, live, config) ==
    IF EnvAttr(frozen, live, "FLATHUNTER_LOOP_PAUSE_FROM") # PyNone
    THEN PyStr(str(EnvAttr(frozen, live, "FLATHUNTER_LOOP_PAUSE_FROM")))
    ELSE Yaml_loop_pause_from(config)
loop_pause_till(frozen, live, config) ==
    IF EnvAttr(frozen, live, "FLATHUNTER_LOOP_PAUSE_TILL") # PyNone
    THEN PyStr(str(EnvAttr(frozen, live, "FLATHUNTER_LOOP_PAUSE_TILL")))
    ELSE Yaml_loop_pause_till(config)
has_website_config(frozen, live, config) ==
    IF EnvAttr(frozen, live, "FLATHUNTER_WEBSITE_SESSION_KEY") # PyNone
    THEN PyBool(TRUE)
    ELSE Yaml_has_website_config(config)
website_session_key(frozen, live, config) ==
    IF EnvAttr(frozen, live, "FLATHUNTER_WEBSITE_SESSION_KEY") # PyNone
    THEN EnvAttr(frozen, live, "FLATHUNTER_WEBSITE_SESSION_KEY")
    ELSE Yaml_website_session_key(config)
website_domain(frozen, live, config) ==
    IF EnvAttr(frozen, live, "FLATHUNTER_WEBSITE_DOMAIN") # PyNone
    THEN EnvAttr(frozen, live, "FLATHUNTER_WEBSITE_DOMAIN")
    ELSE Yaml_website_domain(config)
website_bot_name(frozen, live, config) ==
    IF EnvAttr(frozen, live, "FLATHUNTER_WEBSITE_BOT_NAME") # PyNone
    THEN EnvAttr(frozen, live, "FLATHUNTER_WEBSITE_BOT_NAME")
    ELSE Yaml_website_bot_name(config)
google_cloud_project_id(frozen, live, config) ==
    IF EnvAttr(frozen, live, "FLATHUNTER_GOOGLE_CLOUD_PROJECT_ID") # PyNone
    THEN EnvAttr(frozen, live, "FLATHUNTER_GOOGLE_CLOUD_PROJECT_ID")
    ELSE Yaml_google_cloud_project_id(config)
message_format(frozen, live, config) ==
    IF EnvAttr(frozen, live, "FLATHUNTER_MESSAGE_FORMAT") # PyNone
    THEN PyStr(join(split(EnvAttr(frozen, live, "FLATHUNTER_MESSAGE_FORMAT").s, "#CR#"), "\n"))
    ELSE Yaml_message_format(config)
notifiers(frozen, live, config) ==
    IF EnvAttr(frozen, live, "FLATHUNTER_NOTIFIERS") # PyNone
    THEN PyList(split(EnvAttr(frozen, live, "FLATHUNTER_NOTIFIERS").s, ","))
    ELSE Yaml_notifiers(config)
telegram_bot_token(frozen, live, config) ==
    IF EnvAttr(frozen, live, "FLATHUNTER_TELEGRAM_BOT_TOKEN") # PyNone
    THEN EnvAttr(frozen, live, "FLATHUNTER_TELEGRAM_BOT_TOKEN")
    ELSE Yaml_telegram_bot_token(config)
telegram_notify_with_images(frozen, live, config) ==
    IF EnvAttr(frozen, live, "FLATHUNTER_TELEGRAM_BOT_NOTIFY_WITH_IMAGES") # PyNone
    THEN PyBool(str(EnvAttr(frozen, live, "FLATHUNTER_TELEGRAM_BOT_NOTIFY_WITH_IMAGES"))
                = <<"true">>)
    ELSE Yaml_telegram_notify_with_images(config)
telegram_receiver_ids(frozen, live, config) ==
    IF EnvAttr(frozen, live, "FLATHUNTER_TELEGRAM_RECEIVER_IDS") # PyNone
    THEN IntEach(split(EnvAttr(frozen, live, "FLATHUNTER_TELEGRAM_RECEIVER_IDS").s, ","))
    ELSE Yaml_telegram_receiver_ids(config)
mattermost_webhook_url(frozen, live, config) ==
    IF EnvAttr(frozen, live, "FLATHUNTER_MATTERMOST_WEBHOOK_URL") # PyNone
    THEN EnvAttr(frozen, live, "FLATHUNTER_MATTERMOST_WEBHOOK_URL")
    ELSE Yaml_mattermost_webhook_url(config)
slack_webhook_url(frozen, live, config) ==
    IF EnvAttr(frozen, live, "FLATHUNTER_SLACK_WEBHOOK_URL") # PyNone
    THEN EnvAttr(frozen, live, "FLATHUNTER_SLACK_WEBHOOK_URL")
    ELSE Yaml_slack_webhook_url(config)
apprise_notify_with_images(frozen, live, config) ==
    IF EnvAttr(frozen, live, "FLATHUNTER_APPRISE_NOTIFY_WITH_IMAGES") # PyNone
    THEN PyBool(str(EnvAttr(frozen, live, "FLATHUNTER_APPRISE_NOTIFY_WITH_IMAGES"))
                = <<"true">>)
    ELSE Yaml_apprise_notify_with_images(config)
excluded_titles(frozen, live, config) ==
    IF EnvAttr(frozen, live, "FLATHUNTER_FILTER_EXCLUDED_TITLES") # PyNone
    THEN PyList(split(EnvAttr(frozen, live, "FLATHUNTER_FILTER_EXCLUDED_TITLES").s, ";"))
    ELSE Yaml_excluded_titles(config)

\* faulty variant: the file's value wins over the environment
min_price_file_first(frozen, live, config) ==
    IF Yaml_min_price(config) # PyNone
    THEN Yaml_min_price(config)
    ELSE IF EnvAttr(frozen, live, "FLATHUNTER_FILTER_MIN_PRICE") # PyNone
    THEN int(EnvAttr(frozen, live, "FLATHUNTER_FILTER_MIN_PRICE").s)
    ELSE PyNone

min_price(frozen, live, config) ==
    IF EnvAttr(frozen, live, "FLATHUNTER_FILTER_MIN_PRICE") # PyNone
    THEN int(EnvAttr(frozen, live, "FLATHUNTER_FILTER_MIN_PRICE").s)
    ELSE Yaml_min_price(config)
max_price(frozen, live, config) ==
    IF EnvAttr(frozen, live, "FLATHUNTER_FILTER_MAX_PRICE") # PyNone
    THEN int(EnvAttr(frozen, live, "FLATHUNTER_FILTER_MAX_PRICE").s)
    ELSE Yaml_max_price(config)
min_size(frozen, live, config) ==
    IF EnvAttr(frozen, live, "FLATHUNTER_FILTER_MIN_SIZE") # PyNone
    THEN int(EnvAttr(frozen, live, "FLATHUNTER_FILTER_MIN_SIZE").s)
    ELSE Yaml_min_size(config)
max_size(frozen, live, config) ==
    IF EnvAttr(frozen, live, "FLATHUNTER_FILTER_MAX_SIZE") # PyNone
    THEN int(EnvAttr(frozen, live, "FLATHUNTER_FILTER_MAX_SIZE").s)
    ELSE Yaml_max_size(config)
min_rooms(frozen, live, config) ==
    IF EnvAttr(frozen, live, "FLATHUNTER_FILTER_MIN_ROOMS") # PyNone
    THEN int(EnvAttr(frozen, live, "FLATHUNTER_FILTER_MIN_ROOMS").s)
    ELSE Yaml_min_rooms(config)
max_rooms(frozen, live, config) ==
    IF EnvAttr(frozen, live, "FLATHUNTER_FILTER_MAX_ROOMS") # PyNone
    THEN int(EnvAttr(frozen, live, "FLATHUNTER_FILTER_MAX_ROOMS").s)
    ELSE Yaml_max_rooms(config)
max_price_per_square(frozen, live, config) ==
    IF EnvAttr(frozen, live, "FLATHUNTER_FILTER_MAX_PRICE_PER_SQUARE") # PyNone
    THEN float(EnvAttr(frozen, live, "FLATHUNTER_FILTER_MAX_PRICE_PER_SQUARE").s)
    ELSE Yaml_max_price_per_square(config)

\* YamlConfig.get_auto_email_active
get_auto_email_active(config) ==
    LET section == get(config, "auto_email", EmptyDict)
    IN IF IsRaise(section) THEN section ELSE get(section, "active", PyNone)

\* processor.py 51-52: "google_maps_api" in config and config["google_maps_api"]["enable"]
durations_enabled(config) ==
    IF ~In(Word("google_maps_api"), config) THEN PyBool(FALSE)
    ELSE getitem(getitem(config, "google_maps_api"), "enable")
(***************************************************************************)
(* Listings, stages and what each stage does with a sequence of exposes.   *)
(***************************************************************************)
Listings == {"a", "b"}
Expose(i) == [id |-> i, crawler |-> "Immobilienscout", url |-> <<"url", i>>,
              title |-> <<"title", i>>, price |-> <<"price", i>>, size |-> <<"size", i>>,
              rooms |-> <<"rooms", i>>, address |-> <<"address", i>>]
Exposes == {Expose(i) : i \in Listings}

BoundedSeq(S, n) == UNION {[1..k -> S] : k \in 0..n}

NotifierNames == <<"telegram", "mattermost", "apprise", "slack", "console">>
Notifiers == {NotifierNames[i] : i \in 1..Len(NotifierNames)}
EnrichStages == {"AddressResolver", "GMapsDurationProcessor", "CrawlExposeDetails",
                 "LambdaProcessor", "AutoEmailProcessor"}
FilterSets == {"dedup", "rules"}

Sender(name) == [kind |-> "notify", name |-> name]
Enricher(name) == [kind |-> "enrich", name |-> name]
Filter(filter_set) == [kind |-> "filter", name |-> filter_set]
SaveAllExposesProcessor == [kind |-> "persist", name |-> "SaveAllExposesProcessor"]

Ids(xs) == {xs[i].id : i \in 1..Len(xs)}

\* faulty variant: the expose comes back with its title cleaned
ConsoleProcessExposeRetitled(expose) == [expose EXCEPT !.title = <<"title">>]

\* SenderConsole.process_expose: log the expose and return it
ConsoleProcessExpose(expose) == expose

\* A notifier's process_expose: one send per expose; a failure of the send is
\* caught and logged, and the expose is returned either way.
NotifyEvent(name, expose, fails) ==
    [k |-> "notify", n |-> name, id |-> expose.id, ok |-> name \notin fails]
NotifyExpose(name, expose) ==
    IF name = "console" THEN ConsoleProcessExpose(expose) ELSE expose

\* An enrichment stage on one expose: the expose, or nothing when it raises
EnrichKeeps(expose, bad) == expose.id \notin bad

\* The filter: the dedup filter drops what the id store has seen, the rule set
\* drops what it rejects
FilterKeeps(filter_set, expose, seenIds, rej) ==
    IF filter_set = "dedup" THEN expose.id \notin seenIds ELSE expose.id \notin rej

CommitEvent(expose) == [k |-> "commit", id |-> expose.id]

\* process_exposes of a stage on the sequence xs: the sequence it returns, the
\* dispatches and commits it makes (in the order of xs), and the id store after it
RECURSIVE StageEvents(_, _, _)
StageEvents(stage, xs, fails) ==
    IF xs = << >> THEN << >>
    ELSE (CASE stage.kind = "notify" -> <<NotifyEvent(stage.name, Head(xs), fails)>>
            [] stage.kind = "persist" -> <<CommitEvent(Head(xs))>>
            [] OTHER -> << >>) \o StageEvents(stage, Tail(xs), fails)

RECURSIVE MapSeq(_, _)
MapSeq(name, xs) ==
    IF xs = << >> THEN << >> ELSE <<NotifyExpose(name, Head(xs))>> \o MapSeq(name, Tail(xs))

RECURSIVE FilterSeq(_, _, _, _)
FilterSeq(xs, filter_set, seenIds, rej) ==
    IF xs = << >> THEN << >>
    ELSE (IF FilterKeeps(filter_set, Head(xs), seenIds, rej) THEN <<Head(xs)>> ELSE << >>)
         \o FilterSeq(Tail(xs), filter_set, seenIds, rej)

RECURSIVE EnrichSeq(_, _)
EnrichSeq(xs, bad) ==
    IF xs = << >> THEN << >>
    ELSE (IF EnrichKeeps(Head(xs), bad) THEN <<Head(xs)>> ELSE << >>)
         \o EnrichSeq(Tail(xs), bad)

process_exposes(stage, xs, seenIds, rej, bad, fails) ==
    [out |-> CASE stage.kind = "notify" -> MapSeq(stage.name, xs)
               [] stage.kind = "filter" -> FilterSeq(xs, stage.name, seenIds, rej)
               [] stage.kind = "enrich" -> EnrichSeq(xs, bad)
               [] OTHER -> xs,
     ev |-> StageEvents(stage, xs, fails),
     seen |-> IF stage.kind = "persist" THEN seenIds \cup Ids(xs) ELSE seenIds]

(***************************************************************************)
(* ProcessorChainBuilder (processor.py 14-79).                             *)
(***************************************************************************)
\* list.append
append(list, x) == Append(list, x)

RECURSIVE AppendAll(_, _)
AppendAll(list, xs) ==
    IF xs = << >> THEN list ELSE AppendAll(append(list, Head(xs)), Tail(xs))

\* processor.py 24-34: one `if name in notifiers: append` per notifier, in this order
RECURSIVE SendersFrom(_, _)
SendersFrom(names, configured) ==
    IF names = << >> THEN << >>
    ELSE (IF In(Word(Head(names)), configured) THEN <<Sender(Head(names))>> ELSE << >>)
         \o SendersFrom(Tail(names), configured)

\* faulty variant: an if/elif chain: only the first configured notifier is added
FirstConfiguredSender(configured) ==
    IF SendersFrom(NotifierNames, configured) = << >> THEN << >>
    ELSE <<Head(SendersFrom(NotifierNames, configured))>>

ConfiguredSenders(configured) == SendersFrom(NotifierNames, configured)

CanCall == pc = "idle" /\ cfg.status = "ok" /\ Len(processors) < MaxStages

AddStages(stages) ==
    /\ CanCall
    /\ processors' = AppendAll(processors, stages)
    /\ addLog' = addLog \o stages
    /\ UNCHANGED <<built, cfgVars, runVars, worldVars>>

SendMessagesStages == ConfiguredSenders(notifiers(Env, osEnv, cfg.config))
SendEmailsStages ==
    IF Truthy(get_auto_email_active(cfg.config))
    THEN <<Enricher("AutoEmailProcessor")>> ELSE << >>
CalculateDurationsStages ==
    IF Truthy(durations_enabled(cfg.config))
    THEN <<Enricher("GMapsDurationProcessor")>> ELSE << >>

send_messages ==
    /\ ~IsRaise(notifiers(Env, osEnv, cfg.config))
    /\ AddStages(SendMessagesStages)

send_emails ==
    /\ ~IsRaise(get_auto_email_active(cfg.config))
    /\ AddStages(SendEmailsStages)

resolve_addresses == AddStages(<<Enricher("AddressResolver")>>)

calculate_durations ==
    /\ ~IsRaise(durations_enabled(cfg.config))
    /\ AddStages(CalculateDurationsStages)

crawl_expose_details == AddStages(<<Enricher("CrawlExposeDetails")>>)

map == AddStages(<<Enricher("LambdaProcessor")>>)

apply_filter == \E filter_set \in FilterSets : AddStages(<<Filter(filter_set)>>)

save_all_exposes == AddStages(<<SaveAllExposesProcessor>>)

\* build: ProcessorChain(self.processors) keeps the builder's list itself
build ==
    /\ pc = "idle" /\ cfg.status = "ok" /\ ~built
    /\ built' = TRUE
    /\ UNCHANGED <<processors, addLog, cfgVars, runVars, worldVars>>

(***************************************************************************)
(* ProcessorChain.process (processor.py 88-91): reduce over the processors.*)
(***************************************************************************)
\* faulty variant: reduce walking the list from its end
NextProcessorReversed(procs, i) == procs[Len(procs) - i]

\* the processor reduce takes after having applied i of them
NextProcessor(procs, i) == procs[i + 1]

\* faulty variant: every processor is handed the caller's sequence
ReduceArgInitial(accumulated, initial) == initial

\* what the lambda hands to process_exposes: the accumulated sequence
ReduceArg(accumulated, initial) == accumulated

\* faulty variant: reduce starts from an empty sequence
ReduceInitialEmpty(initial) == << >>

\* the third argument of reduce: the accumulator starts as the caller's sequence
ReduceInitial(initial) == initial

process ==
    /\ pc = "idle" /\ built
    /\ \E xs \in BoundedSeq(Exposes, MaxLen) :
          /\ exposes' = xs
          /\ acc' = ReduceInitial(xs)
          /\ inputs' = Append(inputs, xs)
    /\ pc' = "running"
    /\ idx' = 0
    /\ trace' = << >>
    /\ UNCHANGED <<result, seen, events, cfgVars, chainVars, worldVars>>

ReduceStep ==
    /\ pc = "running" /\ idx < Len(processors)
    /\ LET stage == NextProcessor(processors, idx)
           arg == ReduceArg(acc, exposes)
           r == process_exposes(stage, arg, seen, rejected, raises, failing)
       IN /\ acc' = r.out
          /\ seen' = r.seen
          /\ events' = events \o r.ev
          /\ trace' = Append(trace, [stage |-> stage, inp |-> arg, out |-> r.out,
                                     at |-> Len(events)])
    /\ idx' = idx + 1
    /\ UNCHANGED <<pc, exposes, result, inputs, cfgVars, chainVars, worldVars>>

ProcessReturn ==
    /\ pc = "running" /\ idx = Len(processors)
    /\ result' = acc
    /\ pc' = "done"
    /\ UNCHANGED <<exposes, acc, idx, trace, seen, events, inputs,
                   cfgVars, chainVars, worldVars>>
(***************************************************************************)
(* The environment variables class Env registers (config.py 33-82).        *)
(***************************************************************************)
EnvVars == {
    "FLATHUNTER_2CAPTCHA_KEY", "FLATHUNTER_IMAGETYPERZ_TOKEN", "FLATHUNTER_HEADLESS_BROWSER",
    "FLATHUNTER_TARGET_URLS", "FLATHUNTER_DATABASE_LOCATION",
    "FLATHUNTER_GOOGLE_CLOUD_PROJECT_ID", "FLATHUNTER_VERBOSE_LOG",
    "FLATHUNTER_LOOP_PERIOD_SECONDS", "FLATHUNTER_LOOP_PAUSE_FROM",
    "FLATHUNTER_LOOP_PAUSE_TILL", "FLATHUNTER_MESSAGE_FORMAT",
    "FLATHUNTER_WEBSITE_SESSION_KEY", "FLATHUNTER_WEBSITE_DOMAIN",
    "FLATHUNTER_WEBSITE_BOT_NAME", "FLATHUNTER_NOTIFIERS", "FLATHUNTER_TELEGRAM_BOT_TOKEN",
    "FLATHUNTER_TELEGRAM_BOT_NOTIFY_WITH_IMAGES", "FLATHUNTER_TELEGRAM_RECEIVER_IDS",
    "FLATHUNTER_MATTERMOST_WEBHOOK_URL", "FLATHUNTER_SLACK_WEBHOOK_URL",
    "FLATHUNTER_APPRISE_NOTIFY_WITH_IMAGES", "FLATHUNTER_FILTER_EXCLUDED_TITLES",
    "FLATHUNTER_FILTER_MIN_PRICE", "FLATHUNTER_FILTER_MAX_PRICE",
    "FLATHUNTER_FILTER_MIN_SIZE", "FLATHUNTER_FILTER_MAX_SIZE",
    "FLATHUNTER_FILTER_MIN_ROOMS", "FLATHUNTER_FILTER_MAX_ROOMS",
    "FLATHUNTER_FILTER_MAX_PRICE_PER_SQUARE"}

NoEnv == [v \in EnvVars |-> PyNone]
EnvWith(name, value) == [NoEnv EXCEPT ![name] = value]

(***************************************************************************)
(* The builder driven by arbitrary calls, then one call of process.        *)
(***************************************************************************)
ChainSetups == {
    [env |-> NoEnv,
     config |-> PyDict([k \in {"notifiers"} |->
                  PyList(<<Word("telegram"), Word("slack"), Word("telegram"), Word("pigeon")>>)])],
    [env |-> EnvWith("FLATHUNTER_NOTIFIERS", PyStr(<<"mattermost", ",", "apprise">>)),
     config |-> PyDict([k \in {"notifiers", "auto_email", "google_maps_api"} |->
                  CASE k = "notifiers" -> PyList(<<Word("console")>>)
                    [] k = "auto_email" -> PyDict([j \in {"active"} |-> PyBool(TRUE)])
                    [] OTHER -> PyDict([j \in {"enable"} |-> PyBool(TRUE)])])],
    [env |-> EnvWith("FLATHUNTER_NOTIFIERS", PyStr(<< >>)),
     config |-> PyDict([k \in {"notifiers"} |-> PyList(<<Word("console")>>)])],
    [env |-> NoEnv, config |-> EmptyDict],
    [env |-> NoEnv,
     config |-> PyDict([k \in {"notifiers"} |-> PyList(<<Word("console"), Word("slack")>>)])]}

Worlds == {
    [seen |-> {"b"}, rejected |-> {}, raises |-> {}, failing |-> {}],
    [seen |-> {}, rejected |-> {"b"}, raises |-> {}, failing |-> {"slack"}],
    [seen |-> {"b"}, rejected |-> {}, raises |-> {"a"}, failing |-> {"telegram", "mattermost"}],
    [seen |-> {}, rejected |-> {"a"}, raises |-> {"b"}, failing |-> {"apprise"}]}

\* Immobilienscout.__init__ (self.driver = None), no call made yet
InitCrawler ==
    /\ driver = PyNone /\ created = 0 /\ cpc = "idle" /\ max_pages = PyNone
    /\ page_no = 0 /\ no_of_results = 0 /\ entries = << >> /\ fetched = << >>
    /\ crawled = [op |-> "none", out |-> PyNone, script |-> PyNone]
    /\ call = << >>

InitRun ==
    /\ pc = "idle" /\ exposes = << >> /\ acc = << >> /\ idx = 0 /\ trace = << >>
    /\ result = << >> /\ events = << >> /\ inputs = << >>
    /\ InitCrawler

InitChain ==
    /\ \E setup \in ChainSetups :
          /\ osEnv = setup.env /\ Env = setup.env
          /\ file = setup.config
          /\ cfg = [status |-> "ok", config |-> setup.config]
    /\ filename = Word("config.yaml")
    /\ cycle = 0 /\ observed = << >>
    /\ processors = << >> /\ built = FALSE /\ addLog = << >>
    /\ InitRun
    /\ \E w \in Worlds :
          /\ seen = w.seen
          /\ rejected = w.rejected /\ raises = w.raises /\ failing = w.failing

Init == InitChain

Next ==
    \/ send_messages
    \/ send_emails
    \/ resolve_addresses
    \/ calculate_durations
    \/ crawl_expose_details
    \/ map
    \/ apply_filter
    \/ save_all_exposes
    \/ build
    \/ process
    \/ ReduceStep
    \/ ProcessReturn

Spec == Init /\ [][Next]_vars
(***************************************************************************)
(* The polling cycle: a chain in the order of the data flow (dedup filter, *)
(* filter rules, enrichment, notifiers, persist), built anew and run once  *)
(* per cycle.                                                              *)
(***************************************************************************)
HuntChain ==
    AppendAll(<< >>, <<Filter("dedup"), Filter("rules"), Enricher("AddressResolver")>>
                     \o CalculateDurationsStages \o SendMessagesStages
                     \o <<SaveAllExposesProcessor>>)

hunt ==
    /\ pc = "idle" /\ ~built /\ cfg.status = "ok" /\ cycle < MaxRuns
    /\ processors' = HuntChain
    /\ addLog' = <<Filter("dedup"), Filter("rules"), Enricher("AddressResolver")>>
                 \o CalculateDurationsStages \o SendMessagesStages
                 \o <<SaveAllExposesProcessor>>
    /\ built' = TRUE
    /\ UNCHANGED <<cfgVars, runVars, worldVars>>

CycleEnd ==
    /\ pc = "done"
    /\ pc' = "idle"
    /\ cycle' = cycle + 1
    /\ processors' = << >> /\ addLog' = << >> /\ built' = FALSE
    /\ UNCHANGED <<osEnv, Env, file, filename, cfg, observed, exposes, acc, idx, trace,
                   result, seen, events, inputs, worldVars>>

InitHunt ==
    /\ \E setup \in ChainSetups :
          /\ osEnv = setup.env /\ Env = setup.env
          /\ file = setup.config
          /\ cfg = [status |-> "ok", config |-> setup.config]
    /\ filename = Word("config.yaml")
    /\ cycle = 0 /\ observed = << >>
    /\ processors = << >> /\ built = FALSE /\ addLog = << >>
    /\ InitRun
    /\ seen = {}
    /\ \E w \in Worlds : rejected = w.rejected /\ raises = w.raises /\ failing = w.failing

NextHunt ==
    \/ hunt
    \/ process
    \/ ReduceStep
    \/ ProcessReturn
    \/ CycleEnd

SpecHunt == InitHunt /\ [][NextHunt]_vars

(***************************************************************************)
(* Config.__init__ and YamlConfig.__init__ (config.py 105-110, 134-149,    *)
(* 436-448).                                                               *)
(***************************************************************************)
NoFile == [t |-> "nofile"]            \* os.path.exists(filename) is false
InvalidYaml == [t |-> "invalid"]      \* a file yaml.safe_load cannot parse

\* check_deprecated: None, or the exception its .get calls raise
check_deprecated(config) ==
    LET captcha_config == get(config, "captcha", PyNone)
    IN IF IsRaise(captcha_config) THEN captcha_config
       ELSE IF captcha_config = PyNone THEN PyNone
       ELSE IF IsRaise(get(captcha_config, "imagetypers", PyNone))
       THEN get(captcha_config, "imagetypers", PyNone)
       ELSE PyNone

\* YamlConfig.__init__: the object, or the exception raised
YamlConfig_init(config) ==
    LET c == IF config = PyNone THEN EmptyDict ELSE config
    IN IF IsRaise(check_deprecated(c))
       THEN [status |-> check_deprecated(c).e, config |-> PyNone]
       ELSE [status |-> "ok", config |-> c]

\* faulty variant: a missing file is taken for an empty configuration
Config_init_missing_file_ok(name, frozen, live, content) ==
    IF name = PyNone /\ EnvAttr(frozen, live, "FLATHUNTER_TARGET_URLS") = PyNone
    THEN [status |-> "ConfigException", config |-> PyNone]
    ELSE IF name # PyNone /\ content = InvalidYaml
    THEN [status |-> "YAMLError", config |-> PyNone]
    ELSE IF name # PyNone /\ content # NoFile THEN YamlConfig_init(content)
    ELSE YamlConfig_init(EmptyDict)

\* Config.__init__(filename) with content at the path: the object, or the exception
Config_init(name, frozen, live, content) ==
    IF name = PyNone /\ EnvAttr(frozen, live, "FLATHUNTER_TARGET_URLS") = PyNone
    THEN [status |-> "ConfigException", config |-> PyNone]
    ELSE IF name # PyNone
    THEN IF content = NoFile THEN [status |-> "ConfigException", config |-> PyNone]
         ELSE IF content = InvalidYaml THEN [status |-> "YAMLError", config |-> PyNone]
         ELSE YamlConfig_init(content)
    ELSE YamlConfig_init(EmptyDict)

(***************************************************************************)
(* The settings with an environment override, by getter name.              *)
(***************************************************************************)
Settings == {
    "_get_imagetyperz_token", "get_twocaptcha_key", "captcha_driver_arguments",
    "database_location", "target_urls", "verbose_logging", "loop_is_active",
    "loop_period_seconds", "loop_pause_from", "loop_pause_till", "has_website_config",
    "website_session_key", "website_domain", "website_bot_name", "google_cloud_project_id",
    "message_format", "notifiers", "telegram_bot_token", "telegram_notify_with_images",
    "telegram_receiver_ids", "mattermost_webhook_url", "slack_webhook_url",
    "apprise_notify_with_images", "excluded_titles", "min_price", "max_price", "min_size",
    "max_size", "min_rooms", "max_rooms", "max_price_per_square"}

\* self.<getter>() on a Config
Getter(g, frozen, live, config) ==
    CASE g = "_get_imagetyperz_token" -> get_imagetyperz_token(frozen, live, config)
      [] g = "get_twocaptcha_key" -> get_twocaptcha_key(frozen, live, config)
      [] g = "captcha_driver_arguments" -> captcha_driver_arguments(frozen, live, config)
      [] g = "database_location" -> database_location(frozen, live, config)
      [] g = "target_urls" -> target_urls(frozen, live, config)
      [] g = "verbose_logging" -> verbose_logging(frozen, live, config)
      [] g = "loop_is_active" -> loop_is_active(frozen, live, config)
      [] g = "loop_period_seconds" -> loop_period_seconds(frozen, live, config)
      [] g = "loop_pause_from" -> loop_pause_from(frozen, live, config)
      [] g = "loop_pause_till" -> loop_pause_till(frozen, live, config)
      [] g = "has_website_config" -> has_website_config(frozen, live, config)
      [] g = "website_session_key" -> website_session_key(frozen, live, config)
      [] g = "website_domain" -> website_domain(frozen, live, config)
      [] g = "website_bot_name" -> website_bot_name(frozen, live, config)
      [] g = "google_cloud_project_id" -> google_cloud_project_id(frozen, live, config)
      [] g = "message_format" -> message_format(frozen, live, config)
      [] g = "notifiers" -> notifiers(frozen, live, config)
      [] g = "telegram_bot_token" -> telegram_bot_token(frozen, live, config)
      [] g = "telegram_notify_with_images" -> telegram_notify_with_images(frozen, live, config)
      [] g = "telegram_receiver_ids" -> telegram_receiver_ids(frozen, live, config)
      [] g = "mattermost_webhook_url" -> mattermost_webhook_url(frozen, live, config)
      [] g = "slack_webhook_url" -> slack_webhook_url(frozen, live, config)
      [] g = "apprise_notify_with_images" -> apprise_notify_with_images(frozen, live, config)
      [] g = "excluded_titles" -> excluded_titles(frozen, live, config)
      [] g = "min_price" -> min_price(frozen, live, config)
      [] g = "max_price" -> max_price(frozen, live, config)
      [] g = "min_size" -> min_size(frozen, live, config)
      [] g = "max_size" -> max_size(frozen, live, config)
      [] g = "min_rooms" -> min_rooms(frozen, live, config)
      [] g = "max_rooms" -> max_rooms(frozen, live, config)
      [] g = "max_price_per_square" -> max_price_per_square(frozen, live, config)

\* super().<getter>(): the same getter of YamlConfig
YamlGetter(g, config) ==
    CASE g = "_get_imagetyperz_token" -> Yaml_get_imagetyperz_token(config)
      [] g = "get_twocaptcha_key" -> Yaml_get_twocaptcha_key(config)
      [] g = "captcha_driver_arguments" -> Yaml_captcha_driver_arguments(config)
      [] g = "database_location" -> Yaml_database_location(config)
      [] g = "target_urls" -> Yaml_target_urls(config)
      [] g = "verbose_logging" -> Yaml_verbose_logging(config)
      [] g = "loop_is_active" -> Yaml_loop_is_active(config)
      [] g = "loop_period_seconds" -> Yaml_loop_period_seconds(config)
      [] g = "loop_pause_from" -> Yaml_loop_pause_from(config)
      [] g = "loop_pause_till" -> Yaml_loop_pause_till(config)
      [] g = "has_website_config" -> Yaml_has_website_config(config)
      [] g = "website_session_key" -> Yaml_website_session_key(config)
      [] g = "website_domain" -> Yaml_website_domain(config)
      [] g = "website_bot_name" -> Yaml_website_bot_name(config)
      [] g = "google_cloud_project_id" -> Yaml_google_cloud_project_id(config)
      [] g = "message_format" -> Yaml_message_format(config)
      [] g = "notifiers" -> Yaml_notifiers(config)
      [] g = "telegram_bot_token" -> Yaml_telegram_bot_token(config)
      [] g = "telegram_notify_with_images" -> Yaml_telegram_notify_with_images(config)
      [] g = "telegram_receiver_ids" -> Yaml_telegram_receiver_ids(config)
      [] g = "mattermost_webhook_url" -> Yaml_mattermost_webhook_url(config)
      [] g = "slack_webhook_url" -> Yaml_slack_webhook_url(config)
      [] g = "apprise_notify_with_images" -> Yaml_apprise_notify_with_images(config)
      [] g = "excluded_titles" -> Yaml_excluded_titles(config)
      [] g = "min_price" -> Yaml_min_price(config)
      [] g = "max_price" -> Yaml_max_price(config)
      [] g = "min_size" -> Yaml_min_size(config)
      [] g = "max_size" -> Yaml_max_size(config)
      [] g = "min_rooms" -> Yaml_min_rooms(config)
      [] g = "max_rooms" -> Yaml_max_rooms(config)
      [] g = "max_price_per_square" -> Yaml_max_price_per_square(config)

\* the environment variable a getter looks at
EnvVarOf(g) ==
    CASE g = "_get_imagetyperz_token" -> "FLATHUNTER_IMAGETYPERZ_TOKEN"
      [] g = "get_twocaptcha_key" -> "FLATHUNTER_2CAPTCHA_KEY"
      [] g = "captcha_driver_arguments" -> "FLATHUNTER_HEADLESS_BROWSER"
      [] g = "database_location" -> "FLATHUNTER_DATABASE_LOCATION"
      [] g = "target_urls" -> "FLATHUNTER_TARGET_URLS"
      [] g = "verbose_logging" -> "FLATHUNTER_VERBOSE_LOG"
      [] g = "loop_is_active" -> "FLATHUNTER_LOOP_PERIOD_SECONDS"
      [] g = "loop_period_seconds" -> "FLATHUNTER_LOOP_PERIOD_SECONDS"
      [] g = "loop_pause_from" -> "FLATHUNTER_LOOP_PAUSE_FROM"
      [] g = "loop_pause_till" -> "FLATHUNTER_LOOP_PAUSE_TILL"
      [] g = "has_website_config" -> "FLATHUNTER_WEBSITE_SESSION_KEY"
      [] g = "website_session_key" -> "FLATHUNTER_WEBSITE_SESSION_KEY"
      [] g = "website_domain" -> "FLATHUNTER_WEBSITE_DOMAIN"
      [] g = "website_bot_name" -> "FLATHUNTER_WEBSITE_BOT_NAME"
      [] g = "google_cloud_project_id" -> "FLATHUNTER_GOOGLE_CLOUD_PROJECT_ID"
      [] g = "message_format" -> "FLATHUNTER_MESSAGE_FORMAT"
      [] g = "notifiers" -> "FLATHUNTER_NOTIFIERS"
      [] g = "telegram_bot_token" -> "FLATHUNTER_TELEGRAM_BOT_TOKEN"
      [] g = "telegram_notify_with_images" -> "FLATHUNTER_TELEGRAM_BOT_NOTIFY_WITH_IMAGES"
      [] g = "telegram_receiver_ids" -> "FLATHUNTER_TELEGRAM_RECEIVER_IDS"
      [] g = "mattermost_webhook_url" -> "FLATHUNTER_MATTERMOST_WEBHOOK_URL"
      [] g = "slack_webhook_url" -> "FLATHUNTER_SLACK_WEBHOOK_URL"
      [] g = "apprise_notify_with_images" -> "FLATHUNTER_APPRISE_NOTIFY_WITH_IMAGES"
      [] g = "excluded_titles" -> "FLATHUNTER_FILTER_EXCLUDED_TITLES"
      [] g = "min_price" -> "FLATHUNTER_FILTER_MIN_PRICE"
      [] g = "max_price" -> "FLATHUNTER_FILTER_MAX_PRICE"
      [] g = "min_size" -> "FLATHUNTER_FILTER_MIN_SIZE"
      [] g = "max_size" -> "FLATHUNTER_FILTER_MAX_SIZE"
      [] g = "min_rooms" -> "FLATHUNTER_FILTER_MIN_ROOMS"
      [] g = "max_rooms" -> "FLATHUNTER_FILTER_MAX_ROOMS"
      [] g = "max_price_per_square" -> "FLATHUNTER_FILTER_MAX_PRICE_PER_SQUARE"

AllGetters(frozen, live, config) == [g \in Settings |-> Getter(g, frozen, live, config)]

(***************************************************************************)
(* Constructing a Config and reading its settings.                         *)
(***************************************************************************)
ConfigPath == Word("config.yaml")

FullConfig == PyDict(
    "captcha" :> PyDict("driver_arguments" :> PyList(<<Word("--headless")>>)
                        @@ "imagetyperz" :> PyDict("token" :> Word("tok"))
                        @@ "2captcha" :> PyDict("api_key" :> Word("key")))
    @@ "database_location" :> Word("/db")
    @@ "urls" :> PyList(<<Word("url1"), Word("url2")>>)
    @@ "verbose" :> PyBool(TRUE)
    @@ "loop" :> PyDict("active" :> PyBool(TRUE) @@ "sleeping_time" :> PyInt(30)
                     @@ "pause" :> PyDict("from" :> Word("23:00") @@ "till" :> Word("07:00")))
    @@ "website" :> PyDict("session_key" :> Word("secret") @@ "domain" :> Word("example.org")
                        @@ "bot_name" :> Word("bot"))
    @@ "google_cloud_project_id" :> Word("project")
    @@ "message" :> Word("{title}")
    @@ "notifiers" :> PyList(<<Word("telegram"), Word("console")>>)
    @@ "telegram" :> PyDict("bot_token" :> Word("token") @@ "notify_with_images" :> PyBool(TRUE)
                         @@ "receiver_ids" :> PyList(<<PyInt(5)>>))
    @@ "mattermost" :> PyDict("webhook_url" :> Word("mm"))
    @@ "slack" :> PyDict("webhook_url" :> Word("sl"))
    @@ "apprise_notify_with_images" :> Word("TRUE")
    @@ "filters" :> PyDict("excluded_titles" :> PyList(<<Word("swap")>>)
                        @@ "min_price" :> PyInt(2) @@ "max_price" :> PyInt(9)
                        @@ "min_size" :> PyInt(3) @@ "max_size" :> PyInt(8)
                        @@ "min_rooms" :> PyInt(1) @@ "max_rooms" :> PyInt(4)
                        @@ "max_price_per_square" :> PyInt(6)))

PartialConfig == PyDict(
    "urls" :> PyList(<<Word("url3")>>)
    @@ "filters" :> PyNone
    @@ "excluded_titles" :> PyList(<<Word("wg")>>)
    @@ "loop" :> PyDict("active" :> PyBool(FALSE))
    @@ "notifiers" :> PyList(<<Word("slack")>>))

FileContents == {
    NoFile, InvalidYaml, PyNone, EmptyDict, FullConfig, PartialConfig,
    PyList(<<Word("urls")>>),
    PyDict("captcha" :> Word("imagetyperz"))}

EnvAlphabet == {"1", "x", ",", ";", "true", "#CR#"}
EnvChoices ==
    {NoEnv} \cup {EnvWith(v, PyStr(value)) :
                    v \in EnvVars, value \in BoundedSeq(EnvAlphabet, MaxStrLen)}

\* config = Config(filename)
ConfigInit ==
    /\ pc = "idle"
    /\ \E name \in {PyNone, ConfigPath} :
          /\ filename' = name
          /\ cfg' = Config_init(name, Env, osEnv, file)
    /\ UNCHANGED <<osEnv, Env, file, cycle, observed, chainVars, runVars, worldVars>>

\* the start of a polling cycle: the settings are read from the Config object;
\* fresh is what a Config built at this moment from the process environment
\* and the file would return
FreshConfig == Config_init(filename, osEnv, osEnv, file)
StartCycle ==
    /\ pc = "idle" /\ cfg.status = "ok" /\ cycle < MaxRuns
    /\ cycle' = cycle + 1
    /\ observed' = [of |-> cfg.config,
                    got |-> AllGetters(Env, osEnv, cfg.config),
                    fresh |-> IF FreshConfig.status = "ok"
                              THEN AllGetters(osEnv, osEnv, FreshConfig.config)
                              ELSE FreshConfig,
                    wasFresh |-> IF cycle = 0 THEN TRUE ELSE observed.got = observed.fresh]
    /\ UNCHANGED <<osEnv, Env, file, filename, cfg, chainVars, runVars, worldVars>>

InitIdle ==
    /\ processors = << >> /\ built = FALSE /\ addLog = << >>
    /\ InitRun
    /\ seen = {} /\ rejected = {} /\ raises = {} /\ failing = {}

InitConfig ==
    /\ osEnv \in EnvChoices /\ Env = osEnv
    /\ file \in FileContents
    /\ filename = PyNone
    /\ cfg = [status |-> "none", config |-> PyNone]
    /\ cycle = 0 /\ observed = << >>
    /\ InitIdle

NextConfig ==
    \/ ConfigInit
    \/ StartCycle

SpecConfig == InitConfig /\ [][NextConfig]_vars

(***************************************************************************)
(* The file and the process environment changing while a Config exists.    *)
(***************************************************************************)
ReloadFiles == {
    PyDict("notifiers" :> PyList(<<Word("telegram")>>)
           @@ "filters" :> PyDict("min_price" :> PyInt(2))),
    PyDict("notifiers" :> PyList(<<Word("console")>>)
           @@ "filters" :> PyDict("min_price" :> PyInt(5) @@ "max_price" :> PyInt(9))),
    EmptyDict}
ReloadVars == {"FLATHUNTER_NOTIFIERS", "FLATHUNTER_FILTER_MIN_PRICE"}
ReloadValues == {PyNone, PyStr(<<"1">>)}

\* the file at the configuration path is rewritten
ChangeFile ==
    /\ pc = "idle"
    /\ \E content \in ReloadFiles : content # file /\ file' = content
    /\ UNCHANGED <<osEnv, Env, filename, cfg, cycle, observed, chainVars, runVars, worldVars>>

\* os.environ is changed after the import of flathunter.config
ChangeEnv ==
    /\ pc = "idle"
    /\ \E v \in ReloadVars : \E value \in ReloadValues :
          /\ osEnv[v] # value
          /\ osEnv' = [osEnv EXCEPT ![v] = value]
    /\ UNCHANGED <<Env, file, filename, cfg, cycle, observed, chainVars, runVars, worldVars>>

InitReload ==
    /\ \E v \in ReloadVars : \E value \in ReloadValues : osEnv = EnvWith(v, value)
    /\ Env = osEnv
    /\ file \in ReloadFiles
    /\ filename = PyNone
    /\ cfg = [status |-> "none", config |-> PyNone]
    /\ cycle = 0 /\ observed = << >>
    /\ InitIdle

NextReload ==
    \/ ConfigInit
    \/ ChangeFile
    \/ ChangeEnv
    \/ StartCycle

SpecReload == InitReload /\ [][NextReload]_vars

(***************************************************************************)
(* Captcha settings (config.py 183-185, 297-317, 403-415).                 *)
(***************************************************************************)
ImageTyperzSolver(token) == [t |-> "solver", kind |-> "ImageTyperzSolver", key |-> token]
TwoCaptchaSolver(api_key) == [t |-> "solver", kind |-> "TwoCaptchaSolver", key |-> api_key]

\* faulty variant: the 2captcha key is looked at first
internal_get_captcha_solver_twocaptcha_first(frozen, live, config) ==
    LET twocaptcha_api_key == get_twocaptcha_key(frozen, live, config)
        imagetyperz_token == get_imagetyperz_token(frozen, live, config)
    IN IF IsRaise(twocaptcha_api_key) THEN twocaptcha_api_key
       ELSE IF Truthy(twocaptcha_api_key) THEN TwoCaptchaSolver(twocaptcha_api_key)
       ELSE IF IsRaise(imagetyperz_token) THEN imagetyperz_token
       ELSE IF Truthy(imagetyperz_token) THEN ImageTyperzSolver(imagetyperz_token)
       ELSE PyNone

\* YamlConfig._get_captcha_solver, on the token getters of CaptchaEnvironmentConfig
internal_get_captcha_solver(frozen, live, config) ==
    LET imagetyperz_token == get_imagetyperz_token(frozen, live, config)
        twocaptcha_api_key == get_twocaptcha_key(frozen, live, config)
    IN IF IsRaise(imagetyperz_token) THEN imagetyperz_token
       ELSE IF Truthy(imagetyperz_token) THEN ImageTyperzSolver(imagetyperz_token)
       ELSE IF IsRaise(twocaptcha_api_key) THEN twocaptcha_api_key
       ELSE IF Truthy(twocaptcha_api_key) THEN TwoCaptchaSolver(twocaptcha_api_key)
       ELSE PyNone

captcha_enabled(frozen, live, config) ==
    LET solver == internal_get_captcha_solver(frozen, live, config)
    IN IF IsRaise(solver) THEN solver ELSE PyBool(solver # PyNone)

get_captcha_solver(frozen, live, config) ==
    LET solver == internal_get_captcha_solver(frozen, live, config)
    IN IF IsRaise(solver) THEN solver
       ELSE IF solver # PyNone THEN solver
       ELSE Raise("ConfigException")

get_is_captcha_manual(config) ==
    LET v == read_yaml_path(config, <<"captcha", "manual">>, Word("false"))
    IN IF IsRaise(v) THEN v ELSE PyBool(lower(str(v)) = <<"true">>)

(***************************************************************************)
(* The Immobilienscout crawler (crawler/immobilienscout.py).               *)
(***************************************************************************)
MaxLinks == 3      \* result links on one page
MaxFetch == 3      \* pages the model lets one get_results call fetch
RESULT_LIMIT == 50

Min(a, b) == IF a < b THEN a ELSE b

ExposeIds == {1, 2}
Counts == {0, 3, 60}

\* What get_page returns: the result count the page reports, the ids of its
\* result links in page order, and the number of attribute containers on it.
Pages ==
    {[count |-> c, ids |-> l, attrs |-> Len(l)] :
        c \in Counts, l \in BoundedSeq(ExposeIds, MaxLinks)}
    \cup {[count |-> 3, ids |-> <<1, 2>>, attrs |-> 1]}

get_result_count(soup) == soup.count

\* the details dictionary of the link at position i
Details(ids, i) == [id |-> ids[i], url |-> <<"href", ids[i]>>, crawler |-> "Immobilienscout"]

\* immobilienscout.py 372-413: the second loop of extract_data, from position i
\* on; expose_id is what the first loop left in that variable
RECURSIVE ExtractFrom(_, _, _, _)
ExtractFrom(ids, i, expose_id, found) ==
    IF i > Len(ids) THEN found
    ELSE LET exist == \E k \in 1..Len(found) : expose_id = found[k].id
         IN ExtractFrom(ids, i + 1, expose_id,
                        IF exist THEN found ELSE Append(found, Details(ids, i)))

extract_data(soup) ==
    LET expose_id == IF soup.ids = << >> THEN 0 ELSE soup.ids[Len(soup.ids)]
    IN IF soup.attrs < Len(soup.ids) THEN Raise("IndexError")
       ELSE PyList(ExtractFrom(soup.ids, 1, expose_id, << >>))

\* What execute_script('return window.IS24.resultList') gives: the ids of the
\* entries in the JSON, or the exception the driver raises
ScriptOutcomes == {PyList(<< >>), PyList(<<1, 2>>), Raise("JavascriptException"),
                   Raise("WebDriverException")}

FromJson(ids) ==
    [i \in 1..Len(ids) |->
        [id |-> ids[i], url |-> <<"expose", ids[i]>>, crawler |-> "Immobilienscout"]]

get_entries_from_javascript(script) ==
    IF script = Raise("JavascriptException") THEN PyList(<< >>)
    ELSE IF IsRaise(script) THEN script
    ELSE PyList(FromJson(script.l))

ChromeDriver == [t |-> "chrome"]

\* self.captcha_solver, set when the crawler is constructed
captcha_solver == internal_get_captcha_solver(Env, osEnv, cfg.config)

\* immobilienscout.py 70: the configuration asks for a browser
DriverWanted ==
    \/ Truthy(captcha_enabled(Env, osEnv, cfg.config)) /\ Truthy(captcha_solver)
    \/ Truthy(get_is_captcha_manual(cfg.config))

\* faulty variant: the driver is created on every call that wants one
GetDriverUncached(current, wanted) ==
    IF ~wanted THEN [driver |-> current, made |-> 0, ret |-> PyNone]
    ELSE [driver |-> ChromeDriver, made |-> 1, ret |-> ChromeDriver]

\* get_driver: the driver it leaves in self.driver, the number of drivers it
\* created, and what it returns
GetDriver(current, wanted) ==
    IF current # PyNone THEN [driver |-> current, made |-> 0, ret |-> current]
    ELSE IF ~wanted THEN [driver |-> PyNone, made |-> 0, ret |-> PyNone]
    ELSE [driver |-> ChromeDriver, made |-> 1, ret |-> ChromeDriver]

CrawlerReady == cpc # "loop" /\ cfg.status = "ok"

get_driver ==
    /\ CrawlerReady
    /\ LET r == GetDriver(driver, DriverWanted)
       IN /\ driver' = r.driver
          /\ created' = created + r.made
          /\ crawled' = [op |-> "get_driver", out |-> r.ret, script |-> PyNone]
    /\ cpc' = "returned"
    /\ UNCHANGED <<max_pages, page_no, no_of_results, entries, fetched,
                   cfgVars, chainVars, runVars, stageVars, call>>

get_driver_force ==
    /\ CrawlerReady
    /\ LET r == GetDriver(driver, DriverWanted)
           raised == r.ret = PyNone
       IN /\ driver' = r.driver
          /\ created' = created + r.made
          /\ crawled' = [op |-> "get_driver_force",
                         out |-> IF raised THEN Raise("DriverLoadException") ELSE r.ret,
                         script |-> PyNone]
          /\ cpc' = IF raised THEN "raised" ELSE "returned"
    /\ UNCHANGED <<max_pages, page_no, no_of_results, entries, fetched,
                   cfgVars, chainVars, runVars, stageVars, call>>

MaxPagesChoices == {PyNone, PyInt(0), PyInt(1), PyInt(2)}

\* immobilienscout.py 110-111: the condition of the while loop
LoopCondition(n, count, limit, page) ==
    n < Min(count, RESULT_LIMIT) /\ (IF limit = PyNone THEN TRUE ELSE page < limit.i)

\* faulty variant: the extracted page is never taken for the end of the results
BreakNever(cur_entry) == FALSE

\* immobilienscout.py 118: isinstance(cur_entry, list)
BreakOn(cur_entry) == cur_entry.t = "list"

\* get_results up to the while loop: the first page is fetched; with a driver
\* the entries are read from the page's JavaScript and returned.  The model
\* follows one call of get_results per crawler.
get_results ==
    /\ CrawlerReady /\ fetched = << >>
    /\ \E limit \in MaxPagesChoices, soup \in Pages, script \in ScriptOutcomes :
          LET first == GetDriver(driver, DriverWanted)
              second == GetDriver(first.driver, DriverWanted)
              fromScript == get_entries_from_javascript(script)
              data == extract_data(soup)
              out == IF second.ret # PyNone THEN fromScript ELSE data
          IN /\ driver' = second.driver
             /\ created' = created + first.made + second.made
             /\ max_pages' = limit
             /\ page_no' = 1
             /\ fetched' = <<soup>>
             /\ IF second.ret # PyNone \/ IsRaise(out)
                THEN /\ cpc' = IF IsRaise(out) THEN "raised" ELSE "returned"
                     /\ crawled' = [op |-> "get_results", out |-> out,
                                     script |-> IF second.ret # PyNone THEN script
                                                ELSE PyNone]
                     /\ no_of_results' = 0
                     /\ entries' = << >>
                ELSE /\ cpc' = "loop"
                     /\ crawled' = [op |-> "get_results", out |-> PyNone, script |-> PyNone]
                     /\ no_of_results' = get_result_count(soup)
                     /\ entries' = data.l
    /\ UNCHANGED <<cfgVars, chainVars, runVars, stageVars, call>>

\* one pass through the body of the while loop
NextPage ==
    /\ cpc = "loop"
    /\ LoopCondition(Len(entries), no_of_results, max_pages, page_no)
    /\ Len(fetched) < MaxFetch
    /\ \E soup \in Pages :
          LET cur_entry == extract_data(soup)
          IN /\ page_no' = page_no + 1
             /\ fetched' = Append(fetched, soup)
             /\ IF IsRaise(cur_entry)
                THEN /\ cpc' = "raised"
                     /\ crawled' = [op |-> "get_results", out |-> cur_entry, script |-> PyNone]
                     /\ entries' = entries
                ELSE IF BreakOn(cur_entry)
                THEN /\ cpc' = "returned"
                     /\ crawled' = [op |-> "get_results", out |-> PyList(entries),
                                     script |-> PyNone]
                     /\ entries' = entries
                ELSE /\ cpc' = "loop"
                     /\ crawled' = crawled
                     /\ entries' = entries \o cur_entry.l
    /\ UNCHANGED <<driver, created, max_pages, no_of_results,
                   cfgVars, chainVars, runVars, stageVars, call>>

\* the while condition is false: return entries
ReturnEntries ==
    /\ cpc = "loop"
    /\ ~LoopCondition(Len(entries), no_of_results, max_pages, page_no)
    /\ cpc' = "returned"
    /\ crawled' = [op |-> "get_results", out |-> PyList(entries),
                                     script |-> PyNone]
    /\ UNCHANGED <<driver, created, max_pages, page_no, no_of_results, entries, fetched,
                   cfgVars, chainVars, runVars, stageVars, call>>

CrawlSetups == {
    [env |-> NoEnv, config |-> EmptyDict],
    [env |-> NoEnv,
     config |-> PyDict("captcha" :> PyDict("imagetyperz" :> PyDict("token" :> Word("tok"))))],
    [env |-> NoEnv, config |-> PyDict("captcha" :> PyDict("manual" :> PyBool(TRUE)))],
    [env |-> EnvWith("FLATHUNTER_2CAPTCHA_KEY", PyStr(<< >>)),
     config |-> PyDict("captcha" :> PyDict("2captcha" :> PyDict("api_key" :> Word("key"))))]}

InitCrawl ==
    /\ \E setup \in CrawlSetups :
          /\ osEnv = setup.env /\ Env = setup.env
          /\ file = setup.config
          /\ cfg = [status |-> "ok", config |-> setup.config]
    /\ filename = ConfigPath
    /\ cycle = 0 /\ observed = << >>
    /\ InitIdle

NextCrawl ==
    \/ get_driver
    \/ get_driver_force
    \/ get_results
    \/ NextPage
    \/ ReturnEntries

SpecCrawl == InitCrawl /\ [][NextCrawl]_vars

\* the crawler keeps running: a call that can take a step takes it
SpecCrawlLive == SpecCrawl /\ WF_vars(NextPage) /\ WF_vars(ReturnEntries)

(***************************************************************************)
(* Functions of config.py called on their own: elide, _read_yaml_path and  *)
(* the captcha solver selection.                                           *)
(***************************************************************************)
MaxSecretLen == 7  \* characters of a secret handed to elide

\* "x" * n
Xs(n) == [i \in 1..n |-> "x"]

\* config.py 85-92
elide(string) ==
    IF string = PyNone THEN PyNone
    ELSE IF Len(string.s) = 0 THEN PyNone
    ELSE IF Len(string.s) < 6 THEN PyStr(Xs(Len(string.s)))
    ELSE PyStr(SubSeq(string.s, 1, 3) \o Xs(Len(string.s) - 6)
               \o SubSeq(string.s, Len(string.s) - 2, Len(string.s)))

SecretAlphabet == {"a", "b"}
Secrets == {PyNone} \cup {PyStr(s) : s \in BoundedSeq(SecretAlphabet, MaxSecretLen)}

CallElide ==
    /\ \E string \in Secrets :
          call' = [fn |-> "elide", arg |-> string, res |-> elide(string)]
    /\ UNCHANGED <<cfgVars, chainVars, runVars, stageVars, crawlVars>>

\* Nested configurations under the keys a, a.b and a.b.c
Leaves == {PyNone, PyBool(FALSE), PyInt(0), PyList(<< >>), Word("v")}
UnderB == {EmptyDict} \cup {PyDict("c" :> v) : v \in Leaves}
UnderA == {EmptyDict} \cup {PyDict("b" :> v) : v \in Leaves \cup UnderB}
YamlTrees == {EmptyDict} \cup {PyDict("a" :> v) : v \in Leaves \cup UnderA}
YamlPaths == {<<"a">>, <<"a", "b">>, <<"a", "b", "c">>}
DefaultValue == Word("default")

CallReadYamlPath ==
    /\ \E config \in YamlTrees, parts \in YamlPaths :
          call' = [fn |-> "_read_yaml_path",
                   arg |-> [config |-> config, parts |-> parts],
                   res |-> read_yaml_path(config, parts, DefaultValue)]
    /\ UNCHANGED <<cfgVars, chainVars, runVars, stageVars, crawlVars>>

TokenChoices == {PyNone, PyStr(<< >>), Word("envtoken")}
CaptchaFiles == {
    EmptyDict,
    FullConfig,
    PyDict("captcha" :> PyDict("2captcha" :> PyDict("api_key" :> Word("key")))),
    PyDict("captcha" :> PyDict("imagetyperz" :> PyDict("token" :> PyStr(<< >>))
                               @@ "2captcha" :> PyDict("api_key" :> Word("key")))),
    PyDict("captcha" :> PyDict("imagetyperz" :> PyDict("token" :> PyNone)))}

\* the captcha getters of one Config, called one after the other
CallCaptcha ==
    /\ \E token \in TokenChoices, key \in TokenChoices, config \in CaptchaFiles :
          LET frozen == [NoEnv EXCEPT !["FLATHUNTER_IMAGETYPERZ_TOKEN"] = token,
                                      !["FLATHUNTER_2CAPTCHA_KEY"] = key]
          IN call' = [fn |-> "captcha",
                      arg |-> [imagetyperz_token |-> get_imagetyperz_token(frozen, frozen, config),
                               twocaptcha_key |-> get_twocaptcha_key(frozen, frozen, config)],
                      res |-> [solver |-> internal_get_captcha_solver(frozen, frozen, config),
                               captcha_enabled |-> captcha_enabled(frozen, frozen, config),
                               get_captcha_solver |-> get_captcha_solver(frozen, frozen, config)]]
    /\ UNCHANGED <<cfgVars, chainVars, runVars, stageVars, crawlVars>>

\* dict.update: the top-level keys of other replace those of the dictionary
update(dictionary, other) ==
    PyDict([k \in DOMAIN dictionary.d \cup DOMAIN other.d |->
              IF k \in DOMAIN other.d THEN other.d[k] ELSE dictionary.d[k]])

\* config.py 327-329: self.config after set_keys(dict_keys)
set_keys(config, dict_keys) == update(config, dict_keys)

\* dictionaries handed to set_keys
KeyDicts == {
    EmptyDict,
    PyDict("filters" :> PyDict("min_price" :> PyInt(5))),
    PyDict("filters" :> PyDict("min_price" :> PyInt(5) @@ "max_price" :> PyInt(7))),
    PyDict("database_location" :> Word("/data")),
    PyDict("notifiers" :> PyList(<<Word("slack")>>)),
    PyDict("database_location" :> Word("/data")
           @@ "filters" :> PyDict("max_price" :> PyInt(7)))}

CallSetKeys ==
    /\ \E config \in {EmptyDict, FullConfig, PartialConfig}, dict_keys \in KeyDicts :
          call' = [fn |-> "set_keys",
                   arg |-> [config |-> config, dict_keys |-> dict_keys],
                   res |-> set_keys(config, dict_keys)]
    /\ UNCHANGED <<cfgVars, chainVars, runVars, stageVars, crawlVars>>

InitCalls ==
    /\ osEnv = NoEnv /\ Env = NoEnv
    /\ file = EmptyDict
    /\ filename = PyNone
    /\ cfg = [status |-> "none", config |-> PyNone]
    /\ cycle = 0 /\ observed = << >>
    /\ InitIdle

NextCalls ==
    \/ CallElide
    \/ CallReadYamlPath
    \/ CallCaptcha
    \/ CallSetKeys

SpecCalls == InitCalls /\ [][NextCalls]_vars

(***************************************************************************)
(* Properties of the processor chain.                                      *)
(***************************************************************************)
Removed(i) == Ids(trace[i].inp) \ Ids(trace[i].out)
Count(xs, x) == Cardinality({i \in 1..Len(xs) : xs[i] = x})

\* C1: process applies the stages in the order the builder calls added them:
\* the first stage receives the caller's sequence, each later stage receives
\* what the stage before it returned, and process returns what the last
\* stage returned.
C1_StagesInOrder ==
    /\ Len(trace) <= Len(addLog)
    /\ \A i \in 1..Len(trace) :
          /\ trace[i].stage = addLog[i]
          /\ trace[i].inp = IF i = 1 THEN exposes ELSE trace[i - 1].out
    /\ pc = "done" =>
          /\ Len(trace) = Len(addLog)
          /\ result = IF trace = << >> THEN exposes ELSE trace[Len(trace)].out

C1_Witness ==
    /\ pc = "done" /\ Len(trace) >= 2
    /\ trace[1].stage # trace[2].stage
    /\ trace[1].out # trace[1].inp
    /\ result # << >>

\* C2: within one run of process, a listing that a filter stage removes is in
\* the input of no later stage and not in the result, and the sequence the
\* filter stage keeps is what the next stage receives.
C2_RemovedNeverPassedOn ==
    \A i \in 1..Len(trace) :
        trace[i].stage.kind = "filter" =>
            /\ \A j \in (i + 1)..Len(trace) : Ids(trace[j].inp) \cap Removed(i) = {}
            /\ i < Len(trace) => trace[i + 1].inp = trace[i].out
            /\ pc = "done" => Ids(result) \cap Removed(i) = {}
            /\ (pc = "done" /\ i = Len(trace)) => result = trace[i].out

C2_Witness ==
    \E i \in 1..Len(trace) :
        /\ trace[i].stage.kind = "filter"
        /\ Removed(i) # {} /\ trace[i].out # << >>
        /\ \E j \in (i + 1)..Len(trace) : trace[j].stage.kind \in {"notify", "persist"}
        /\ pc = "done"

\* C3: no listing is committed by the persist stage before every notify stage
\* of the chain has been attempted for it.
NotifiedBefore(p, name, id) ==
    \E q \in 1..(p - 1) : events[q].k = "notify" /\ events[q].n = name /\ events[q].id = id
C3_CommitAfterNotify ==
    \A p \in 1..Len(events) :
        events[p].k = "commit" =>
            \A i \in 1..Len(processors) :
                processors[i].kind = "notify" =>
                    NotifiedBefore(p, processors[i].name, events[p].id)

\* C7: one call of send_messages adds exactly one notify stage for every name
\* among the five that occurs in config.notifiers(), nothing else, and nothing
\* at all when the list is empty; a listing that reaches the notify stages is
\* dispatched to the configured notifiers only, once by each stage it reaches.
Configured(name) ==
    LET n == notifiers(Env, osEnv, cfg.config)
    IN n.t = "list" /\ \E i \in 1..Len(n.l) : n.l[i] = Word(name)
AddedStages == SubSeq(processors', Len(processors) + 1, Len(processors'))
C7_SendMessagesStep ==
    send_messages =>
        /\ \A name \in Notifiers :
              Count(AddedStages, Sender(name)) = IF Configured(name) THEN 1 ELSE 0
        /\ \A i \in 1..Len(AddedStages) :
              AddedStages[i].kind = "notify" /\ AddedStages[i].name \in Notifiers
        /\ notifiers(Env, osEnv, cfg.config) = PyList(<< >>) => AddedStages = << >>
        /\ SubSeq(processors', 1, Len(processors)) = processors
C7_Dispatch ==
    /\ \A p \in 1..Len(events) : events[p].k = "notify" => Configured(events[p].n)
    /\ \A i \in 1..Len(trace) :
          trace[i].stage.kind = "notify" =>
              LET sent == SubSeq(events, trace[i].at + 1, trace[i].at + Len(trace[i].inp))
              IN \A j \in 1..Len(trace[i].inp) :
                    /\ sent[j].k = "notify" /\ sent[j].n = trace[i].stage.name
                    /\ sent[j].id = trace[i].inp[j].id
C7_OneStagePerConfiguredNotifier ==
    [][C7_SendMessagesStep /\ C7_Dispatch']_vars

C7_Witness ==
    /\ Cardinality({name \in Notifiers : Configured(name)}) = 2
    /\ Len(notifiers(Env, osEnv, cfg.config).l) > 2
    /\ \E i \in 1..Len(trace) : trace[i].stage.kind = "notify" /\ Len(trace[i].inp) = 2
    /\ pc = "done"
\* C12: the console notifier stage is a pass-through: what it returns is the
\* sequence it was given, every expose with every field unchanged, none dropped
\* and none added.
C12_ConsolePassThrough ==
    \A i \in 1..Len(trace) :
        trace[i].stage = Sender("console") =>
            /\ Len(trace[i].out) = Len(trace[i].inp)
            /\ \A j \in 1..Len(trace[i].inp) :
                  /\ trace[i].out[j] = trace[i].inp[j]
                  /\ trace[i].out[j] \in Exposes

C12_Witness ==
    /\ pc = "done" /\ Len(result) = 2
    /\ \E i \in 1..Len(trace) :
          /\ trace[i].stage = Sender("console")
          /\ trace[i].inp = <<Expose("a"), Expose("b")>>
          /\ trace[i].out = result

\* C13: a chain returned by build is immutable: no builder call made after
\* build changes the stages of the built chain.
C13_BuiltChainImmutable == [][built => processors' = processors]_vars

\* C21: a chain with no stages is the identity: when the builder added no
\* processor, process returns exactly the sequence it was given, dispatches
\* nothing and commits nothing.
C21_EmptyChainIsIdentity ==
    (pc = "done" /\ processors = << >>) =>
        /\ result = exposes
        /\ trace = << >>
        /\ events = << >>

C21_Witness ==
    /\ pc = "done" /\ processors = << >> /\ addLog = << >>
    /\ cfg.config = EmptyDict
    /\ exposes = <<Expose("b"), Expose("a")>>
    /\ result = exposes

(***************************************************************************)
(* Properties of the polling cycle.                                        *)
(***************************************************************************)
Dispatches(name, id) ==
    Cardinality({p \in 1..Len(events) :
                    events[p].k = "notify" /\ events[p].n = name /\ events[p].id = id})
Occurrences(xs, id) == Cardinality({i \in 1..Len(xs) : xs[i].id = id})
RunStart == IF trace = << >> THEN Len(events) ELSE trace[1].at
RunEvents == SubSeq(events, RunStart + 1, Len(events))
NotifiedInRun(name, id) ==
    \E p \in 1..Len(RunEvents) :
        RunEvents[p].k = "notify" /\ RunEvents[p].n = name /\ RunEvents[p].id = id
CommittedInRun(id) ==
    \E p \in 1..Len(RunEvents) : RunEvents[p].k = "commit" /\ RunEvents[p].id = id
InBothRuns(id) == Len(inputs) >= 2 /\ id \in Ids(inputs[1]) /\ id \in Ids(inputs[2])

SettingType(g) ==
    CASE g \in {"captcha_driver_arguments", "target_urls", "notifiers",
                "telegram_receiver_ids", "excluded_titles"} -> "list"
      [] g \in {"verbose_logging", "loop_is_active", "has_website_config",
                "telegram_notify_with_images", "apprise_notify_with_images"} -> "bool"
      [] g \in {"loop_period_seconds", "min_price", "max_price", "min_size", "max_size",
                "min_rooms", "max_rooms"} -> "int"
      [] g = "max_price_per_square" -> "float"
      [] OTHER -> "str"

Pieces(s, sep) == split(s, sep)
Convertible(g, s) ==
    CASE SettingType(g) \in {"int", "float"} -> IsNumeral(s)
      [] g = "telegram_receiver_ids" ->
            \A i \in 1..Len(Pieces(s, ",")) : IsNumeral(Pieces(s, ",")[i].s)
      [] OTHER -> TRUE

\* r is the environment value v in the type of setting g
IsConverted(g, v, r) ==
    CASE g \in {"verbose_logging", "loop_is_active", "has_website_config"} -> r = PyBool(TRUE)
      [] g \in {"telegram_notify_with_images", "apprise_notify_with_images"} ->
            r = PyBool(v.s = <<"true">>)
      [] g = "captcha_driver_arguments" -> r = HeadlessArguments
      [] g \in {"target_urls", "excluded_titles"} ->
            /\ join(r.l, ";") = v.s
            /\ \A i \in 1..Len(r.l) : r.l[i].t = "str" /\ ~IsSubstring(<<";">>, r.l[i].s)
      [] g = "notifiers" ->
            /\ join(r.l, ",") = v.s
            /\ \A i \in 1..Len(r.l) : r.l[i].t = "str" /\ ~IsSubstring(<<",">>, r.l[i].s)
      [] g = "telegram_receiver_ids" ->
            /\ Len(r.l) = Len(Pieces(v.s, ","))
            /\ \A i \in 1..Len(r.l) : r.l[i] = PyInt(Decimal(Pieces(v.s, ",")[i].s, 0))
      [] g = "message_format" ->
            /\ Len(r.s) = Len(v.s)
            /\ \A i \in 1..Len(v.s) : r.s[i] = IF v.s[i] = "#CR#" THEN "\n" ELSE v.s[i]
      [] SettingType(g) = "int" -> r = PyInt(Decimal(v.s, 0))
      [] SettingType(g) = "float" -> r = PyFloat(Decimal(v.s, 0))
      [] OTHER -> r = v

MappingFiles == {c \in FileContents : c.t = "dict"}
IgnoresFile(g) == \A c \in MappingFiles : Getter(g, Env, osEnv, c) = observed.got[g]
FileValue(g) == observed.got[g] = YamlGetter(g, observed.of)

C9_Step ==
    /\ Env' = Env
    /\ (cfg.status = "ok" /\ cfg' = cfg) =>
          AllGetters(Env', osEnv', cfg'.config) = AllGetters(Env, osEnv, cfg.config)
    /\ (cfg' # cfg /\ cfg'.status = "ok") =>
          cfg'.config = IF filename' = PyNone THEN EmptyDict ELSE file
    /\ cycle' = cycle + 1 => observed'.got = AllGetters(Env, osEnv, cfg.config)
NoSource == filename = PyNone /\ Env["FLATHUNTER_TARGET_URLS"] = PyNone
MissingFile == filename # PyNone /\ file = NoFile
C10_OtherwiseSucceeds ==
    cfg.status # "none" =>
        IF NoSource \/ MissingFile THEN cfg.status = "ConfigException"
        ELSE /\ cfg.status = "ok"
             /\ filename = PyNone => cfg.config = EmptyDict

\* C10 as amended: construction raises ConfigException in exactly those two
\* cases; with a file at the path it raises the parser's error when the file is
\* not valid YAML and AttributeError when the file's top level, or its captcha
\* entry, is neither empty nor a mapping; in every other case it succeeds, with
\* the file's mapping (empty for an empty file), and with the empty mapping when
\* no filename is given.
LoadsAsMapping(content) ==
    /\ content.t \in {"none", "dict"}
    /\ (content.t = "dict" /\ "captcha" \in DOMAIN content.d) =>
          content.d["captcha"].t \in {"none", "dict"}
C10_ConstructionOutcome ==
    cfg.status # "none" =>
        IF NoSource \/ MissingFile THEN cfg.status = "ConfigException"
        ELSE IF filename = PyNone THEN cfg.status = "ok" /\ cfg.config = EmptyDict
        ELSE IF file = InvalidYaml THEN cfg.status = "YAMLError"
        ELSE IF ~LoadsAsMapping(file) THEN cfg.status = "AttributeError"
        ELSE /\ cfg.status = "ok"
             /\ cfg.config = IF file = PyNone THEN EmptyDict ELSE file

C10_Witness ==
    /\ cfg.status = "ok" /\ filename = PyNone /\ cfg.config = EmptyDict
    /\ file = FullConfig
    /\ Env["FLATHUNTER_TARGET_URLS"] = PyStr(<<"x", ";">>)
(***************************************************************************)
(* Properties of the crawler.                                              *)
(***************************************************************************)
\* C11: an error raised while get_results reads the result list from the
\* browser is turned into an empty result list: get_results returns [] and no
\* exception reaches its caller.
C11_BrowserErrorGivesEmpty ==
    (crawled.op = "get_results" /\ IsRaise(crawled.script)) =>
        (cpc = "returned" /\ crawled.out = PyList(<< >>))

RECURSIVE EntriesOf(_)
EntriesOf(pages) ==
    IF pages = << >> THEN << >>
    ELSE (IF IsRaise(extract_data(Head(pages))) THEN << >> ELSE extract_data(Head(pages)).l)
         \o EntriesOf(Tail(pages))

\* C14: without a driver, what get_results returns holds the entries of every
\* page it fetched, in the order of the pages.
C14_EveryFetchedPageInResult ==
    (crawled.op = "get_results" /\ cpc = "returned" /\ driver = PyNone) =>
        crawled.out = PyList(EntriesOf(fetched))

FetchLimit == IF max_pages = PyNone THEN 0 ELSE max_pages.i
\* C15: get_results terminates whatever the pages hold (a call that is in its
\* loop returns or raises), and with max_pages >= 1 it never has fetched more
\* than max_pages pages.
C15_GetResultsTerminates ==
    /\ [](cpc = "loop" => <>(cpc \in {"returned", "raised"}))
    /\ [](FetchLimit >= 1 => Len(fetched) <= FetchLimit)

C15_Witness ==
    /\ cpc = "returned" /\ crawled.op = "get_results" /\ max_pages = PyNone
    /\ Len(fetched) = 2
    /\ fetched[1].ids = << >> /\ fetched[1].count = 60
    /\ fetched[2].ids = << >>
    /\ crawled.out = PyList(<< >>)

\* the ids of a page in order of first appearance
RECURSIVE FirstAppearances(_, _)
FirstAppearances(ids, have) ==
    IF ids = << >> THEN have
    ELSE FirstAppearances(Tail(ids),
                          IF \E k \in 1..Len(have) : have[k] = Head(ids)
                          THEN have ELSE Append(have, Head(ids)))

\* C16: extract_data returns one entry for each distinct id on the page, in
\* order of first appearance: no id twice, none missing.
C16_OneEntryPerId ==
    (cpc = "loop" /\ Len(fetched) = 1) =>
        [k \in 1..Len(entries) |-> entries[k].id] = FirstAppearances(fetched[1].ids, << >>)

NoCaptchaMode ==
    /\ ~Truthy(captcha_enabled(Env, osEnv, cfg.config))
    /\ ~Truthy(get_is_captcha_manual(cfg.config))
\* C17: the Chrome driver is created at most once, and never when neither a
\* captcha solver is enabled nor manual captcha mode is set; get_driver then
\* returns None, and get_driver_force raises DriverLoadException then and in
\* no other case.
C17_DriverLazyAndCached ==
    /\ created <= 1
    /\ NoCaptchaMode => (created = 0 /\ driver = PyNone)
    /\ (crawled.op = "get_driver" /\ NoCaptchaMode) => crawled.out = PyNone
    /\ crawled.op = "get_driver_force" =>
          /\ NoCaptchaMode => crawled.out = Raise("DriverLoadException")
          /\ ~NoCaptchaMode => crawled.out = ChromeDriver
          /\ (cpc = "raised") = NoCaptchaMode

C17_Witness ==
    /\ crawled.op = "get_driver_force" /\ crawled.out = ChromeDriver
    /\ created = 1 /\ fetched # << >>
    /\ ~Truthy(captcha_enabled(Env, osEnv, cfg.config))
(***************************************************************************)
(* Properties of the functions of config.py.                               *)
(***************************************************************************)
NonEmpty(v) == v.t = "str" /\ v.s # << >>
\* C18: a non-empty imagetyperz token selects the ImageTyperz solver, also when
\* a 2captcha key is set; otherwise a non-empty 2captcha key selects the
\* 2captcha solver; captcha_enabled is true exactly when one of the two is
\* non-empty, and get_captcha_solver raises ConfigException exactly when
\* captcha_enabled is false.
C18_CaptchaSolverSelection ==
    call # << >> =>
        (call.fn = "captcha" =>
            LET token == call.arg.imagetyperz_token
                key == call.arg.twocaptcha_key
            IN /\ NonEmpty(token) => call.res.solver = ImageTyperzSolver(token)
               /\ (~NonEmpty(token) /\ NonEmpty(key)) =>
                     call.res.solver = TwoCaptchaSolver(key)
               /\ call.res.captcha_enabled = PyBool(NonEmpty(token) \/ NonEmpty(key))
               /\ (call.res.get_captcha_solver = Raise("ConfigException"))
                     = (call.res.captcha_enabled = PyBool(FALSE))
               /\ call.res.captcha_enabled = PyBool(TRUE) =>
                     call.res.get_captcha_solver = call.res.solver)

C18_Witness ==
    /\ call # << >>
    /\ call.fn = "captcha"
    /\ call.arg.imagetyperz_token = Word("tok")
    /\ call.arg.twocaptcha_key = Word("envtoken")
    /\ call.res.get_captcha_solver = ImageTyperzSolver(Word("tok"))

\* what is stored under the path: "missing" when a component is not there,
\* "scalar" when a value on the way is neither a mapping nor null
RECURSIVE Stored(_, _)
Stored(config, parts) ==
    IF parts = << >> THEN [at |-> "found", value |-> config]
    ELSE IF config = PyNone THEN [at |-> "null", value |-> PyNone]
    ELSE IF config.t # "dict" THEN [at |-> "scalar", value |-> config]
    ELSE IF parts[1] \notin DOMAIN config.d THEN [at |-> "missing", value |-> PyNone]
    ELSE Stored(config.d[parts[1]], Tail(parts))

\* C19 as stated: _read_yaml_path returns the stored value when every component
\* of the path exists and the value is not null, falsy values as stored, and
\* the default value, without raising, when a component is missing or null at
\* any level.
C19_ValueOrDefault ==
    call # << >> =>
        (call.fn = "_read_yaml_path" =>
            LET stored == Stored(call.arg.config, call.arg.parts)
            IN IF stored.at = "found" /\ stored.value # PyNone
               THEN call.res = stored.value
               ELSE call.res = DefaultValue)

\* C19 as amended: as stated when every value on the way to the last component
\* is a mapping, null or missing; when a value on the way is a scalar or a
\* list, _read_yaml_path raises AttributeError.
C19_ValueDefaultOrAttributeError ==
    call # << >> =>
        (call.fn = "_read_yaml_path" =>
            LET stored == Stored(call.arg.config, call.arg.parts)
            IN IF stored.at = "scalar" THEN call.res = Raise("AttributeError")
               ELSE IF stored.at = "found" /\ stored.value # PyNone
               THEN call.res = stored.value
               ELSE call.res = DefaultValue)

C19_Witness ==
    /\ call # << >>
    /\ call.fn = "_read_yaml_path"
    /\ call.arg.parts = <<"a", "b", "c">>
    /\ call.arg.config = PyDict("a" :> PyDict("b" :> PyDict("c" :> PyBool(FALSE))))
    /\ call.res = PyBool(FALSE)

\* C20: for every non-empty string s, elide(s) has the length of s, copies at
\* most the first three and the last three characters of s, and has an 'x' in
\* at least one position; for None and the empty string it returns None.
C20_ElideObfuscates ==
    call # << >> =>
        (call.fn = "elide" =>
            IF call.arg = PyNone THEN call.res = PyNone
            ELSE IF call.arg.s = << >> THEN call.res = PyNone
            ELSE LET s == call.arg.s
                     r == call.res.s
                 IN /\ Len(r) = Len(s)
                    /\ \A i \in 1..Len(s) :
                          r[i] # "x" => (r[i] = s[i] /\ (i <= 3 \/ i > Len(s) - 3))
                    /\ \E i \in 1..Len(s) : r[i] = "x")

\* the dotted path a getter reads
GetterPath(g) ==
    CASE g = "min_price" -> <<"filters", "min_price">>
      [] g = "max_price" -> <<"filters", "max_price">>
      [] g = "database_location" -> <<"database_location">>
      [] g = "notifiers" -> <<"notifiers">>

\* C22: set_keys overrides only the keys it is given: after set_keys(d), every
\* value whose dotted path is not defined in d reads through its getter as
\* before the call, and every value defined in d reads as given in d.
C22_SetKeysOverridesOnlyGiven ==
    call # << >> =>
        (call.fn = "set_keys" =>
            \A g \in {"min_price", "max_price", "database_location", "notifiers"} :
                LET given == Stored(call.arg.dict_keys, GetterPath(g))
                IN IF given.at = "found"
                   THEN Getter(g, NoEnv, NoEnv, call.res) = given.value
                   ELSE Getter(g, NoEnv, NoEnv, call.res)
                           = Getter(g, NoEnv, NoEnv, call.arg.config))
====
